---- MODULE Spec2Model ----
(***************************************************************************)
(* Model of RoutePlanner (src/route_planner.py): centroidal Voronoi        *)
(* assignment of clients to vehicles, followed by the capacity-aware       *)
(* route construction of every vehicle.                                    *)
(*                                                                         *)
(* Coordinates and quantities are integers.  A cluster center is kept as   *)
(* the exact rational (sx/n, sy/n); distances are compared by their        *)
(* squares, which orders them as np.linalg.norm / math.hypot do.           *)
(***************************************************************************)
EXTENDS Integers, Sequences, FiniteSets, TLC

\* ---------------------------------------------------------------- bounds
MaxClients == 2
MaxVehicles == 2
MaxWarehouses == 2
\* consecutive forced warehouse visits explored before the model stops
\* following a build loop that no longer changes anything but the route
MaxStall == 2

\* ------------------------------------------------------- input catalogs
GoodNames == <<"g", "h">>

\* warehouse i of the catalog lies at (20*(i-1), 0)
WarehousePoint(i) == <<20 * (i - 1), 0>>

ClientPoints == {<<0, 0>>, <<10, 0>>, <<20, 0>>, <<0, 10>>}

Capacities == {50, 100}

\* demand vectors, one entry per good type of the instance; positive is a
\* delivery, negative a pickup
DemandVectors(ng) ==
    IF ng = 1
    THEN {<<40>>, <<-30>>, <<100>>}
    ELSE {<<0, 40>>, <<40, 30>>, <<-30, 0>>, <<-40, 30>>, <<100, 0>>}

MaxItersChoices == {0, 1, 10}

\* ----------------------------------------------------------- arithmetic
RECURSIVE SumSeq(_)
SumSeq(s) == IF s = <<>> THEN 0 ELSE Head(s) + SumSeq(Tail(s))

Min2(a, b) == IF a <= b THEN a ELSE b

\* squared Euclidean distance of two points
euclid(a, b) == (a[1] - b[1]) * (a[1] - b[1]) + (a[2] - b[2]) * (a[2] - b[2])

\* Python's min(iterable, key=...): the first element, in iteration order,
\* that no element undercuts.  Less(a, b) is key(a) < key(b).
FirstMin(seq, Less(_, _)) ==
    seq[CHOOSE i \in DOMAIN seq :
            /\ \A j \in DOMAIN seq : ~Less(seq[j], seq[i])
            /\ \A j \in 1..(i - 1) : Less(seq[i], seq[j])]

Range(seq) == {seq[i] : i \in DOMAIN seq}

\* every order in which a finite set can be iterated
Orders(S) ==
    {s \in [1..Cardinality(S) -> S] : \A i, j \in DOMAIN s : i # j => s[i] # s[j]}

EmptyMap == [k \in {} |-> <<>>]

\* Identifiers are modelled by their rank: client c is the c-th client of the
\* catalog and has the c-th lowest identifier; a vehicle's identifier is the
\* field id of its record, so the fleet can be supplied in any order.
VARIABLES
    warehouses,   \* catalog: sequence of points, warehouse id = index
    clients,      \* catalog: sequence of [pos, demand, is_pickup], client id = index
    vehicles,     \* catalog: sequence of [id, capacity, warehouse_id], in supply order
    good_types,   \* self.good_types
    max_iters,    \* self.max_iters
    centers,      \* self.centers: vehicle id -> [sx, sy, n]
    pc,           \* position in __init__ / plan_routes / _build_capacity_route
    err,          \* the exception that ended the run, "" if none
    it,           \* clustering rounds completed
    assignment,   \* vehicle id -> sequence of client ids
    todo,         \* vehicle ids whose route is still to be built, in order
    solution,     \* vehicle id -> route
    vid,          \* vehicle under construction
    unserved,     \* set of client ids
    iterOrder,    \* the order in which the set `unserved` iterates: a set's order
                  \* follows the hashes of the identifiers, not their values
    inventory,    \* per good type, aligned with good_types
    route,        \* sequence of points
    current_loc,
    invlog,       \* the inventories logged during the current build, in order
    stalled,      \* forced warehouse visits since the last client was served
    served,       \* vehicle id -> the clients it visited, each with its index in the route
    orders,       \* vehicle id -> the iteration order its set `unserved` had
    run,          \* "first", or what the second run is: "fresh" (a second, fresh
                  \* planner), "again" (plan_routes called again on the same planner),
                  \* "reordered" / "interleaved" (the routes built again in another
                  \* order / with the builds of several vehicles in flight at once)
    first,        \* what the first run returned
    parked        \* vehicle id -> the locals of its suspended build

vars == <<warehouses, clients, vehicles, good_types, max_iters, centers, pc, err, it,
          assignment, todo, solution, vid, unserved, iterOrder, inventory, route,
          current_loc, invlog, stalled, served, orders, run, first, parked>>

inputs == <<warehouses, clients, vehicles, good_types, max_iters>>
build == <<vid, unserved, iterOrder, inventory, route, current_loc, invlog, stalled, served,
           orders>>
runs == <<run, first, parked>>

\* ------------------------------------------------------ planner fields
ClientIds == DOMAIN clients
WarehouseIds == DOMAIN warehouses
vehicle_ids == [i \in DOMAIN vehicles |-> vehicles[i].id]
VehicleOf(v) == vehicles[CHOOSE i \in DOMAIN vehicles : vehicles[i].id = v]
wh_map(v) == VehicleOf(v).warehouse_id
capacities(v) == VehicleOf(v).capacity
demands(c) == clients[c].demand
is_pickup(c) == clients[c].is_pickup
locs(c) == clients[c].pos
Goods == DOMAIN good_types
MaxCapacity ==
    CHOOSE m \in {vehicles[i].capacity : i \in DOMAIN vehicles} :
        \A i \in DOMAIN vehicles : vehicles[i].capacity <= m

\* ------------------------------------------------------------- centers
CenterAt(p) == [sx |-> p[1], sy |-> p[2], n |-> 1]

\* squared distance from point p to center c, times c.n^2
DistNum(p, c) ==
    (p[1] * c.n - c.sx) * (p[1] * c.n - c.sx) + (p[2] * c.n - c.sy) * (p[2] * c.n - c.sy)

\* |p - a| < |p - b| for centers a, b
Closer(p, a, b) == DistNum(p, a) * b.n * b.n < DistNum(p, b) * a.n * a.n

SamePoint(a, b) == a.sx * b.n = b.sx * a.n /\ a.sy * b.n = b.sy * a.n

\* ---------------------------------------------------------------- Init
ClientRecords(ng) ==
    {[pos |-> p, demand |-> d, is_pickup |-> SumSeq(d) < 0] :
        p \in ClientPoints, d \in DemandVectors(ng)}

VehicleRecords(nw) ==
    {[id |-> i, capacity |-> c, warehouse_id |-> w] :
        i \in 1..MaxVehicles, c \in Capacities, w \in 1..(IF nw = 0 THEN 1 ELSE nw)}

Inputs ==
    /\ \E nw \in 0..MaxWarehouses :
        /\ warehouses = [i \in 1..nw |-> WarehousePoint(i)]
        /\ \E nv \in 0..MaxVehicles :
            /\ vehicles \in [1..nv -> VehicleRecords(nw)]
            /\ {vehicles[i].id : i \in 1..nv} = 1..nv
    /\ \E ng \in 1..Len(GoodNames) :
        /\ good_types = SubSeq(GoodNames, 1, ng)
        /\ \E nc \in 0..MaxClients : clients \in [1..nc -> ClientRecords(ng)]
    /\ max_iters \in MaxItersChoices

\* a planner not yet constructed
Blank ==
    /\ centers = EmptyMap
    /\ pc = "new"
    /\ err = ""
    /\ it = 0
    /\ assignment = EmptyMap
    /\ todo = <<>>
    /\ solution = EmptyMap
    /\ vid = 0
    /\ unserved = {}
    /\ iterOrder = <<>>
    /\ inventory = <<>>
    /\ route = <<>>
    /\ current_loc = <<0, 0>>
    /\ invlog = <<>>
    /\ stalled = 0
    /\ served = EmptyMap
    /\ orders = EmptyMap

Init ==
    /\ Inputs
    /\ Blank
    /\ run = "first"
    /\ first = <<>>
    /\ parked = EmptyMap

\* ------------------------------------------------------------ __init__
\* The dict comprehensions of the constructor: the first of them to raise
\* ends the construction.
Construct ==
    /\ pc = "new"
    /\ IF \E i \in DOMAIN vehicles : vehicles[i].warehouse_id \notin WarehouseIds
       THEN /\ pc' = "error"
            /\ err' = "KeyError"
            /\ UNCHANGED centers
       ELSE IF clients = <<>>
       THEN /\ pc' = "error"
            /\ err' = "StopIteration"
            /\ UNCHANGED centers
       ELSE /\ centers' = [v \in Range(vehicle_ids) |-> CenterAt(warehouses[wh_map(v)])]
            /\ pc' = "ready"
            /\ UNCHANGED err
    /\ UNCHANGED <<inputs, it, assignment, todo, solution, build, runs>>

\* --------------------------------------------------------- plan_routes
\* entry of plan_routes: assignment = {} and the first test of the for loop
PlanRoutes ==
    /\ pc = "ready"
    /\ assignment' = EmptyMap
    /\ it' = 0
    /\ IF max_iters > 0
       THEN pc' = "assign" /\ UNCHANGED todo
       ELSE pc' = "routes" /\ todo' = <<>>
    /\ UNCHANGED <<inputs, centers, err, solution, build, runs>>

\* the vehicle whose center is nearest to client c: min over centers.keys(),
\* which a dict iterates in insertion order, the order of vehicle_ids
NearestVid(c) ==
    FirstMin(vehicle_ids, LAMBDA a, b : Closer(locs(c), centers[a], centers[b]))

\* a client goes to every vehicle whose center is not farther than another's
AssignmentOf_EveryNearest ==
    [v \in Range(vehicle_ids) |->
        SelectSeq([c \in ClientIds |-> c],
                  LAMBDA c : \A u \in Range(vehicle_ids) :
                                ~Closer(locs(c), centers[u], centers[v]))]

\* the mapping assign_clients returns; each list is in the order of self.clients
AssignmentOf ==
    [v \in Range(vehicle_ids) |->
        SelectSeq([c \in ClientIds |-> c], LAMBDA c : NearestVid(c) = v)]

\* assign_clients; min() of an empty centers raises ValueError
AssignClients ==
    /\ pc = "assign"
    /\ IF vehicle_ids = <<>>
       THEN /\ pc' = "error"
            /\ err' = "ValueError"
            /\ UNCHANGED assignment
       ELSE /\ assignment' = AssignmentOf
            /\ pc' = "update"
            /\ UNCHANGED err
    /\ UNCHANGED <<inputs, centers, it, todo, solution, build, runs>>

\* np.mean of the assigned clients' points and the home warehouse point
Centroid(v, cids) ==
    LET wh == warehouses[wh_map(v)]
    IN  [sx |-> wh[1] + SumSeq([i \in DOMAIN cids |-> locs(cids[i])[1]]),
         sy |-> wh[2] + SumSeq([i \in DOMAIN cids |-> locs(cids[i])[2]]),
         n  |-> Len(cids) + 1]

NewCenters(asg) == [v \in DOMAIN asg |-> Centroid(v, asg[v])]

\* total_shift < tol.  A center that moves does so by sqrt(k)/(n*m) for an
\* integer k >= 1, where n and m are the point counts of the old and the new
\* centroid; n*m stays below 1/tol = 100, so the sum of the shifts is below
\* tol exactly when no center moved.
ShiftBelowTol_Never(asg) == FALSE

ShiftBelowTol(asg) == \A v \in DOMAIN asg : SamePoint(NewCenters(asg)[v], centers[v])

\* update_centers, then the rest of the loop body: the break on a small shift
\* and the loop test
UpdateCenters ==
    /\ pc = "update"
    /\ centers' = NewCenters(assignment)
    /\ it' = it + 1
    /\ IF ShiftBelowTol(assignment) \/ it + 1 >= max_iters
       THEN pc' = "routes" /\ todo' = vehicle_ids
       ELSE pc' = "assign" /\ UNCHANGED todo
    /\ UNCHANGED <<inputs, err, assignment, solution, build, runs>>

\* ------------------------------------------------ _build_capacity_route
depotOf(v) == warehouses[wh_map(v)]

\* total_demands: per good, the demand of the assigned delivery clients
total_demands(cids) ==
    [g \in Goods |->
        SumSeq([i \in DOMAIN cids |->
                    IF is_pickup(cids[i]) THEN 0 ELSE demands(cids[i])[g]])]

\* the preload loop over good_types, from good g on
RECURSIVE LoadFrom(_, _, _, _)
LoadFrom(g, cap_left, inv, td) ==
    IF g > Len(td) THEN inv
    ELSE IF td[g] <= 0 THEN LoadFrom(g + 1, cap_left, inv, td)
    ELSE LET to_load == Min2(td[g], cap_left)
         IN  IF cap_left - to_load <= 0
             THEN [inv EXCEPT ![g] = to_load]
             ELSE LoadFrom(g + 1, cap_left - to_load, [inv EXCEPT ![g] = to_load], td)

\* Preload that takes the whole delivery demand, whatever the capacity
Preload_Uncapped(v, cids) == total_demands(cids)

\* Preload that starts from the inventory the call before it left behind
Preload_Leftover(v, cids) ==
    LoadFrom(1, capacities(v),
             IF Len(inventory) = Len(good_types) THEN inventory ELSE [g \in Goods |-> 0],
             total_demands(cids))

\* the preload into an empty inventory
Preload(v, cids) ==
    LoadFrom(1, capacities(v), [g \in Goods |-> 0], total_demands(cids))

total_inventory(inv) == SumSeq(inv)

\* the feasibility test of the scan
Feasible(c, inv, capacity) ==
    IF is_pickup(c)
    THEN total_inventory(inv) + SumSeq([g \in Goods |-> 0 - demands(c)[g]]) <= capacity
    ELSE \A g \in Goods : inv[g] >= demands(c)[g]

\* `for cid in unserved`: the set's iteration order, less the removed clients
UnservedIter == SelectSeq(iterOrder, LAMBDA c : c \in unserved)

feasible == SelectSeq(UnservedIter, LAMBDA c : Feasible(c, inventory, capacities(vid)))

\* the client farthest from current_loc instead of the nearest
NearestClient_Farthest(seq) ==
    FirstMin(seq, LAMBDA a, b : euclid(current_loc, locs(a)) > euclid(current_loc, locs(b)))

\* min(seq, key = distance from current_loc)
NearestClient(seq) ==
    FirstMin(seq, LAMBDA a, b : euclid(current_loc, locs(a)) < euclid(current_loc, locs(b)))

\* pickups add -amt, deliveries subtract amt
Applied(inv, c) == [g \in Goods |-> inv[g] - demands(c)[g]]

\* vehicle by vehicle, in the order of assignment.items(); everything up to
\* the first test of the while loop
StartBuild ==
    /\ pc = "routes"
    /\ todo # <<>>
    /\ LET v == Head(todo)
           cids == assignment[v]
       IN  /\ vid' = v
           /\ unserved' = Range(cids)
           /\ iterOrder' \in Orders(Range(cids))
           /\ inventory' = Preload(v, cids)
           /\ invlog' = <<Preload(v, cids)>>
           /\ route' = <<depotOf(v)>>
           /\ current_loc' = depotOf(v)
    /\ todo' = Tail(todo)
    /\ stalled' = 0
    /\ pc' = "loop"
    /\ served' = [w \in DOMAIN served \cup {Head(todo)} |->
                    IF w = Head(todo) THEN <<>> ELSE served[w]]
    /\ orders' = [w \in DOMAIN orders \cup {Head(todo)} |->
                    IF w = Head(todo) THEN iterOrder' ELSE orders[w]]
    /\ UNCHANGED <<inputs, centers, err, it, assignment, solution, runs>>

\* the visit of client c: append, apply the demand vector, remove
Visit(c) ==
    /\ route' = Append(route, locs(c))
    /\ current_loc' = locs(c)
    /\ inventory' = Applied(inventory, c)
    /\ invlog' = Append(invlog, Applied(inventory, c))
    /\ unserved' = unserved \ {c}
    /\ stalled' = 0
    /\ served' = [served EXCEPT ![vid] = Append(@, [cid |-> c, at |-> Len(route) + 1])]

\* one iteration of the while loop with a non-empty feasible list
ServeFeasible ==
    /\ pc = "loop"
    /\ unserved # {}
    /\ feasible # <<>>
    /\ Visit(NearestClient(feasible))
    /\ UNCHANGED <<inputs, centers, pc, err, it, assignment, todo, solution, vid, iterOrder,
                   orders, runs>>

\* min over self.warehouses.keys(), a dict in catalog order
nearest_wh ==
    FirstMin([w \in WarehouseIds |-> w],
             LAMBDA a, b : euclid(current_loc, warehouses[a]) < euclid(current_loc, warehouses[b]))

weight(c) == SumSeq(demands(c))

\* list.sort(key = weight) is stable: insert the last element behind every
\* element that is not heavier
RECURSIVE InsertByWeight(_, _)
InsertByWeight(c, sorted) ==
    IF sorted = <<>> THEN <<c>>
    ELSE IF weight(Head(sorted)) <= weight(c)
         THEN <<Head(sorted)>> \o InsertByWeight(c, Tail(sorted))
         ELSE <<c>> \o sorted

RECURSIVE SortByWeight(_)
SortByWeight(seq) ==
    IF seq = <<>> THEN <<>>
    ELSE InsertByWeight(seq[Len(seq)], SortByWeight(SubSeq(seq, 1, Len(seq) - 1)))

deliveries == SortByWeight(SelectSeq(UnservedIter, LAMBDA c : ~is_pickup(c)))

\* the reload loop: a client is loaded when its weight fits what is left
RECURSIVE Reload(_, _, _)
Reload(dl, cap_left, new_inv) ==
    IF dl = <<>> THEN new_inv
    ELSE IF weight(Head(dl)) <= cap_left
         THEN Reload(Tail(dl), cap_left - weight(Head(dl)),
                     [g \in Goods |-> new_inv[g] + demands(Head(dl))[g]])
         ELSE Reload(Tail(dl), cap_left, new_inv)

\* the reload takes the demand of every unserved delivery client, whatever
\* the capacity
Reloaded_Everything ==
    [g \in Goods |-> SumSeq([i \in DOMAIN deliveries |-> demands(deliveries[i])[g]])]

\* the warehouse visit unloads and loads nothing
Reloaded_Nothing == [g \in Goods |-> 0]

\* the inventory after the reload
Reloaded == Reload(deliveries, capacities(vid), [g \in Goods |-> 0])

\* the direct attempt is made when the nearest unserved client is strictly
\* closer than the nearest warehouse
DirectAttempt ==
    euclid(current_loc, locs(NearestClient(UnservedIter)))
        < euclid(current_loc, warehouses[nearest_wh])

\* the direct attempt passes every pickup client
DirectFeasible_AnyPickup(c, inv, capacity) ==
    IF is_pickup(c) THEN TRUE ELSE \A g \in Goods : inv[g] >= demands(c)[g]

\* the test of the direct attempt, written out a second time in the code
DirectFeasible(c, inv, capacity) ==
    IF is_pickup(c)
    THEN total_inventory(inv) + SumSeq([g \in Goods |-> 0 - demands(c)[g]]) <= capacity
    ELSE \A g \in Goods : ~(inv[g] < demands(c)[g])

\* one iteration of the while loop with an empty feasible list: the direct
\* attempt when it passes, else the warehouse visit with unload and reload
NoFeasible ==
    /\ pc = "loop"
    /\ unserved # {}
    /\ feasible = <<>>
    /\ IF DirectAttempt /\ DirectFeasible(NearestClient(UnservedIter), inventory, capacities(vid))
       THEN Visit(NearestClient(UnservedIter))
       ELSE /\ stalled < MaxStall
            /\ route' = Append(route, warehouses[nearest_wh])
            /\ current_loc' = warehouses[nearest_wh]
            /\ inventory' = Reloaded
            /\ invlog' = Append(invlog, Reloaded)
            /\ stalled' = stalled + 1
            /\ UNCHANGED <<unserved, served>>
    /\ UNCHANGED <<inputs, centers, pc, err, it, assignment, todo, solution, vid, iterOrder,
                   orders, runs>>

\* the route returned as the loop left it
ClosedRoute_NeverAppends == route

ClosedRoute == IF current_loc # depotOf(vid) THEN Append(route, depotOf(vid)) ELSE route

\* the loop exit: close the route, return it, and store it in the solution
CloseRoute ==
    /\ pc = "loop"
    /\ unserved = {}
    /\ route' = ClosedRoute
    /\ solution' = [w \in DOMAIN solution \cup {vid} |->
                        IF w = vid THEN ClosedRoute ELSE solution[w]]
    /\ pc' = "routes"
    /\ UNCHANGED <<inputs, centers, err, it, assignment, todo, vid, unserved, iterOrder,
                   inventory, current_loc, invlog, stalled, served, orders, runs>>

\* plan_routes returns the solution
Return ==
    /\ pc = "routes"
    /\ todo = <<>>
    /\ pc' = "done"
    /\ UNCHANGED <<inputs, centers, err, it, assignment, todo, solution, build, runs>>

\* -------------------------------------------------------------- main.py
\* a second, independent run on the same catalogs: a fresh RoutePlanner is
\* constructed and plan_routes is called on it
FreshRun ==
    /\ pc = "done"
    /\ run = "first"
    /\ run' = "fresh"
    /\ first' = [assignment |-> assignment, solution |-> solution]
    /\ centers' = EmptyMap
    /\ pc' = "new"
    /\ err' = ""
    /\ it' = 0
    /\ assignment' = EmptyMap
    /\ todo' = <<>>
    /\ solution' = EmptyMap
    /\ vid' = 0
    /\ unserved' = {}
    /\ iterOrder' = <<>>
    /\ inventory' = <<>>
    /\ route' = <<>>
    /\ current_loc' = <<0, 0>>
    /\ invlog' = <<>>
    /\ stalled' = 0
    /\ served' = EmptyMap
    /\ orders' = EmptyMap
    /\ UNCHANGED <<inputs, parked>>

Next ==
    \/ Construct
    \/ PlanRoutes
    \/ AssignClients
    \/ UpdateCenters
    \/ StartBuild
    \/ ServeFeasible
    \/ NoFeasible
    \/ CloseRoute
    \/ Return

Spec == Init /\ [][Next]_vars

\* two independent runs on one instance with a single good type
InitRuns == Init /\ Len(good_types) = 1 /\ max_iters > 0

\* plan_routes is called a second time on the planner of the first run:
\* self.centers is what update_centers last stored in it
Replan ==
    /\ pc = "done"
    /\ run = "first"
    /\ run' = "again"
    /\ first' = [assignment |-> assignment, solution |-> solution, orders |-> orders]
    /\ solution' = EmptyMap
    /\ served' = EmptyMap
    /\ orders' = EmptyMap
    /\ pc' = "ready"
    /\ UNCHANGED <<inputs, centers, err, it, assignment, todo, vid, unserved, iterOrder,
                   inventory, route, current_loc, invlog, stalled, parked>>

NextRuns == Next \/ FreshRun \/ Replan

SpecRuns == InitRuns /\ [][NextRuns]_vars

\* ------------------------------------- the route loop in another schedule
\* The loop of plan_routes over assignment.items() is run a second time on
\* the planner and the assignment of the first run, the vehicles taken in any
\* order; what the first run returned is kept for the comparison.
Rebuild ==
    /\ pc = "done"
    /\ run = "first"
    /\ run' = "reordered"
    /\ first' = [assignment |-> assignment, solution |-> solution, orders |-> orders,
                 centers |-> centers, todo |-> vehicle_ids]
    /\ todo' \in Orders(DOMAIN assignment)
    /\ solution' = EmptyMap
    /\ served' = EmptyMap
    /\ orders' = EmptyMap
    /\ pc' = "routes"
    /\ UNCHANGED <<inputs, centers, err, it, assignment, vid, unserved, iterOrder, inventory,
                   route, current_loc, invlog, stalled, parked>>

\* the local variables of one call of _build_capacity_route
Locals ==
    [unserved |-> unserved, iterOrder |-> iterOrder, inventory |-> inventory,
     route |-> route, current_loc |-> current_loc, invlog |-> invlog, stalled |-> stalled]

\* the running call is suspended between two iterations of its while loop:
\* its locals are put aside, and the route loop is free to start or to
\* resume another vehicle
Suspend ==
    /\ pc = "loop"
    /\ run \in {"reordered", "interleaved"}
    /\ run' = "interleaved"
    /\ parked' = [w \in DOMAIN parked \cup {vid} |-> IF w = vid THEN Locals ELSE parked[w]]
    /\ pc' = "routes"
    /\ UNCHANGED <<inputs, centers, err, it, assignment, todo, solution, build, first>>

\* a suspended call continues with the locals it was suspended with
Resume ==
    /\ pc = "routes"
    /\ \E w \in DOMAIN parked :
        /\ vid' = w
        /\ unserved' = parked[w].unserved
        /\ iterOrder' = parked[w].iterOrder
        /\ inventory' = parked[w].inventory
        /\ route' = parked[w].route
        /\ current_loc' = parked[w].current_loc
        /\ invlog' = parked[w].invlog
        /\ stalled' = parked[w].stalled
        /\ parked' = [u \in DOMAIN parked \ {w} |-> parked[u]]
    /\ pc' = "loop"
    /\ UNCHANGED <<inputs, centers, err, it, assignment, todo, solution, served, orders,
                   run, first>>

\* plan_routes returns when no call is left suspended
Joined == parked = EmptyMap /\ Return

\* an instance planned with the default iteration cap
InitSchedules == Init /\ max_iters = 10

NextSchedules ==
    \/ Construct
    \/ PlanRoutes
    \/ AssignClients
    \/ UpdateCenters
    \/ StartBuild
    \/ ServeFeasible
    \/ NoFeasible
    \/ CloseRoute
    \/ Joined
    \/ Rebuild
    \/ Suspend
    \/ Resume

SpecSchedules == InitSchedules /\ [][NextSchedules]_vars

\* ================================================================ claims
Building == pc = "loop"

Assigned(v) == Range(assignment[v])

\* The loop body would change nothing but the route: no client is feasible,
\* the direct attempt does not serve, and the vehicle already stands at the
\* nearest warehouse with exactly the inventory a reload gives.  From here
\* the while loop never exits.
NonProgress ==
    /\ Building
    /\ unserved # {}
    /\ feasible = <<>>
    /\ ~(DirectAttempt /\ DirectFeasible(NearestClient(UnservedIter), inventory, capacities(vid)))
    /\ warehouses[nearest_wh] = current_loc
    /\ Reloaded = inventory
    /\ stalled >= 1

Abs(x) == IF x < 0 THEN 0 - x ELSE x

\* C1: during route construction every inventory entry is >= 0 and the
\* total inventory is at most the vehicle's capacity.
C1_InventoryInvariant ==
    Building =>
        /\ \A g \in Goods : inventory[g] >= 0
        /\ total_inventory(inventory) <= capacities(vid)

StrandedClient(c) == \E g \in Goods : demands(c)[g] = 2 * MaxCapacity

\* C2: a build whose clients include one with a single-good demand of twice
\* the largest vehicle capacity does not loop without progress; it ends with
\* an InfeasibleClientError.
C2_NonProgressDetected ==
    (Building /\ \E c \in Assigned(vid) : StrandedClient(c)) =>
        (~NonProgress \/ err = "InfeasibleClientError")

FeasibleInstance ==
    /\ vehicles # <<>>
    /\ \A c \in ClientIds : \A g \in Goods : Abs(demands(c)[g]) <= MaxCapacity

VisitsOf(v, c) == {i \in DOMAIN served[v] : served[v][i].cid = c}

\* C3: on an instance where no single-good demand exceeds the largest
\* capacity of the fleet, plan_routes returns, and every assigned client is
\* visited exactly once, as an intermediate point, by its own vehicle only.
C3_ClientCompleteness ==
    FeasibleInstance =>
        /\ ~NonProgress
        /\ pc = "done" =>
            \A v \in DOMAIN assignment : \A c \in Assigned(v) :
                /\ Cardinality(VisitsOf(v, c)) = 1
                /\ \A i \in VisitsOf(v, c) :
                    /\ served[v][i].at > 1
                    /\ served[v][i].at < Len(solution[v])
                    /\ solution[v][served[v][i].at] = locs(c)
                /\ \A w \in DOMAIN served : w # v => VisitsOf(w, c) = {}

\* C4: every returned route starts and ends at the home warehouse of its
\* vehicle.
C4_DepotClosure ==
    \A v \in DOMAIN solution :
        /\ solution[v][1] = depotOf(v)
        /\ solution[v][Len(solution[v])] = depotOf(v)

\* route indices at which vehicle v visited a client
ClientStops(v) == {served[v][k].at : k \in DOMAIN served[v]}

\* some returned route made a forced visit to a warehouse other than home,
\* and some returned route visited a client living at the depot
C4_Witness ==
    /\ \E v \in DOMAIN solution :
        \E i \in 2..(Len(solution[v]) - 1) :
            /\ i \notin ClientStops(v)
            /\ solution[v][i] # depotOf(v)
    /\ \E v \in DOMAIN solution : \E c \in Assigned(v) : locs(c) = depotOf(v)

\* C5: when one vehicle's build makes no progress, the routes of all other
\* vehicles are still completed.
C5_PartialFailure ==
    NonProgress => \A w \in Range(vehicle_ids) \ {vid} : w \in DOMAIN solution

Scenario ==
    /\ good_types = <<"g">>
    /\ warehouses = <<<<0, 0>>>>
    /\ Len(vehicles) = 1
    /\ vehicles[1].capacity = 100
    /\ vehicles[1].warehouse_id = 1
    /\ \E a, b \in ClientIds :
        /\ ClientIds = {a, b}
        /\ clients[a] = [pos |-> <<10, 0>>, demand |-> <<40>>, is_pickup |-> FALSE]
        /\ clients[b] = [pos |-> <<20, 0>>, demand |-> <<-30>>, is_pickup |-> TRUE]

\* C6: 1 warehouse at (0,0), 1 vehicle of capacity 100, client A at (10,0)
\* delivering 40 of g and client B at (20,0) offering 30 of g: the preload is
\* g=40, the route is depot, A, B, depot, the inventory is 0 after A and 30
\* after B, and no warehouse is visited on the way.
C6_Scenario ==
    Scenario =>
        /\ Building => invlog[1] = <<40>>
        /\ \A v \in DOMAIN solution :
            /\ solution[v] = <<<<0, 0>>, <<10, 0>>, <<20, 0>>, <<0, 0>>>>
            /\ invlog = <<<<40>>, <<0>>, <<30>>>>
            /\ [i \in DOMAIN served[v] |-> locs(served[v][i].cid)] = <<<<10, 0>>, <<20, 0>>>>

C6_Witness == Scenario /\ pc = "done" /\ DOMAIN solution # {}

\* C7: two independent runs on the same catalogs return the same assignment
\* and the same solution.
C7_Determinism ==
    (run = "fresh" /\ pc = "done") =>
        /\ assignment = first.assignment
        /\ solution = first.solution

\* C8: every client is assigned to a vehicle whose center is nearest, and
\* among the nearest centers to the vehicle with the lowest identifier.
C8_LowestIdTieBreak ==
    pc = "update" =>
        \A c \in ClientIds : \E v \in DOMAIN assignment :
            /\ c \in Assigned(v)
            /\ \A w \in DOMAIN centers : ~Closer(locs(c), centers[w], centers[v])
            /\ \A w \in DOMAIN centers :
                ~Closer(locs(c), centers[v], centers[w]) => v <= w

C9_Step ==
    (Building /\ unserved # {} /\ feasible # <<>>) =>
        \E c \in Range(feasible) :
            /\ \A d \in Range(feasible) :
                /\ euclid(current_loc, locs(c)) <= euclid(current_loc, locs(d))
                /\ euclid(current_loc, locs(c)) = euclid(current_loc, locs(d)) => c <= d
            /\ route' = Append(route, locs(c))
            /\ inventory' = [g \in Goods |-> inventory[g] - demands(c)[g]]
            /\ unserved' = unserved \ {c}

\* C9: when some client is feasible, the step visits the feasible client
\* nearest to the current location, the lowest identifier among the nearest,
\* applies its whole demand vector and removes it from the unserved set.
C9_NearestFeasibleLowestId == [][C9_Step]_vars

\* C10: with no vehicle or no warehouse (and some client to plan for) the
\* planner reports the configuration error EmptyFleetOrCatalog before any
\* clustering step.
C10_EmptyFleetOrCatalog ==
    ((vehicles = <<>> \/ warehouses = <<>>) /\ clients # <<>>) =>
        \/ pc \in {"new", "ready"}
        \/ pc = "error" /\ err = "EmptyFleetOrCatalog"

\* C11: when the routes are built again in any order of the vehicles, or with
\* the builds of several vehicles suspended and resumed between their loop
\* iterations, every vehicle gets the route it got when the routes were built
\* one after the other (its set of clients iterating in the same order), and
\* the centers and the assignment are what they were.
C11_CrossVehicleIndependence ==
    (run \in {"reordered", "interleaved"} /\ pc = "done" /\ orders = first.orders)
        => /\ solution = first.solution
           /\ centers = first.centers
           /\ assignment = first.assignment

\* two vehicles with clients each, built in the other order and interleaved
C11_Witness ==
    /\ run = "interleaved"
    /\ pc = "done"
    /\ orders = first.orders
    /\ Len(vehicles) = 2
    /\ \A v \in DOMAIN assignment : Len(solution[v]) >= 3
    /\ DOMAIN solution = DOMAIN assignment

\* C12: whatever the iteration cap, the returned solution has an entry for
\* every vehicle of the fleet, and a vehicle whose final assignment is empty
\* gets the route that consists of its home warehouse point only.
C12_EveryVehicleHasRoute ==
    pc = "done"
        => /\ DOMAIN solution = Range(vehicle_ids)
           /\ \A v \in DOMAIN solution :
                (v \in DOMAIN assignment /\ assignment[v] = <<>>)
                    => solution[v] = <<depotOf(v)>>

\* C13: a second call of plan_routes on the same planner starts its
\* clustering from the centers at the vehicles' home warehouses, as the first
\* call did, and returns the assignment and (the unserved sets iterating in
\* the same orders) the solution of the first call.
C13_ReplanFromSeededCenters ==
    run = "again"
        => /\ (pc = "assign" /\ it = 0)
                => \A v \in DOMAIN centers : SamePoint(centers[v], CenterAt(depotOf(v)))
           /\ pc = "done"
                => /\ assignment = first.assignment
                   /\ orders = first.orders => solution = first.solution

\* a step of the build loop that is a forced warehouse visit
ForcedVisit == pc = "loop" /\ pc' = "loop" /\ stalled' = stalled + 1

\* seq lists the clients of S, each once, by ascending total weight
SortedAscending(seq, S) ==
    /\ Range(seq) = S
    /\ Len(seq) = Cardinality(S)
    /\ \A i, j \in DOMAIN seq : i < j => SumSeq(demands(seq[i])) <= SumSeq(demands(seq[j]))

\* the total weight of the first k clients of seq
PrefixWeight(seq, k) == SumSeq([i \in 1..k |-> SumSeq(demands(seq[i]))])

\* C14: a forced warehouse visit appends the point of a warehouse that is
\* nearest to the current location among all warehouses, and replaces the
\* inventory, whatever it was, by the per-good sum of the demand vectors of
\* the accepted clients: the longest prefix of the unserved delivery clients,
\* sorted ascending by total weight, whose running total stays within the
\* capacity.  Pickup clients are not part of it.
C14_Step ==
    ForcedVisit =>
        /\ \E w \in WarehouseIds :
            /\ route' = Append(route, warehouses[w])
            /\ current_loc' = warehouses[w]
            /\ \A u \in WarehouseIds :
                  euclid(current_loc, warehouses[w]) <= euclid(current_loc, warehouses[u])
        /\ \E seq \in Orders({c \in unserved : ~is_pickup(c)}) :
            /\ SortedAscending(seq, {c \in unserved : ~is_pickup(c)})
            /\ \E k \in 0..Len(seq) :
                /\ PrefixWeight(seq, k) <= capacities(vid)
                /\ k < Len(seq) => PrefixWeight(seq, k + 1) > capacities(vid)
                /\ inventory' = [g \in Goods |-> SumSeq([i \in 1..k |-> demands(seq[i])[g]])]

C14_ForcedWarehouseVisit == [][C14_Step]_vars

\* after a forced visit with two delivery clients unserved, of which the
\* reload accepted one
C14_Witness ==
    /\ pc = "loop"
    /\ stalled = 1
    /\ Cardinality({c \in unserved : ~is_pickup(c)}) = 2
    /\ \E c \in unserved : inventory = demands(c)

\* no center moved in the round that ends with this step
RoundConverged == \A v \in DOMAIN centers : SamePoint(centers'[v], centers[v])

\* C15: a clustering round is assign_clients followed by update_centers; at
\* most max_iters rounds are run, the clustering ends with the first round
\* whose shift is below the tolerance or with round max_iters, whichever
\* comes first, and the routes are built from the assignment of the last
\* round that was run.
C15_Step ==
    /\ pc = "assign" => (it < max_iters /\ it' = it /\ pc' \in {"update", "error"})
    /\ pc = "update"
        => /\ it' = it + 1
           /\ it' <= max_iters
           /\ assignment' = assignment
           /\ pc' \in {"assign", "routes"}
           /\ pc' = "routes" <=> (RoundConverged \/ it' = max_iters)
    /\ pc \in {"routes", "loop"} => (assignment' = assignment /\ it' = it)
    /\ (pc = "routes" /\ pc' = "loop") => unserved' = Range(assignment[vid'])

C15_ClusteringProtocol == [][C15_Step]_vars

\* a route is being built from the assignment of round max_iters, whose
\* centers had moved away from the warehouses
C15_Witness ==
    /\ pc = "loop"
    /\ it = max_iters
    /\ max_iters = 1
    /\ \E v \in DOMAIN centers : ~SamePoint(centers[v], CenterAt(depotOf(v)))
    /\ unserved # {}

\* the delivery demand for good g over the clients assigned to the vehicle
\* whose route is being built
DeliveryDemand(g) ==
    SumSeq([i \in DOMAIN assignment[vid] |->
                IF is_pickup(assignment[vid][i]) THEN 0 ELSE demands(assignment[vid][i])[g]])

C17_Step ==
    (pc = "loop" /\ unserved # {} /\ feasible = <<>>)
        => /\ pc' = "loop"
           /\ unserved' = unserved
           /\ served' = served
           /\ \E w \in WarehouseIds : route' = Append(route, warehouses[w])
           /\ inventory' = Reloaded

C17_EmptyFeasibleForcesVisit == [][C17_Step]_vars

\* a forced visit has just been made from a point where an unserved client
\* was strictly closer than every warehouse, so the direct attempt was made
C17_Witness ==
    /\ pc = "loop"
    /\ stalled = 1
    /\ Len(route) >= 2
    /\ \E c \in unserved : \A w \in WarehouseIds :
            euclid(route[Len(route) - 1], locs(c)) < euclid(route[Len(route) - 1], warehouses[w])

\* every client assigned to v has a demand vector of one sign, the sign its
\* is_pickup flag tells, and a total magnitude within v's capacity
UniformFit(v) ==
    \A c \in Assigned(v) :
        /\ \A g \in Goods : IF is_pickup(c) THEN demands(c)[g] <= 0 ELSE demands(c)[g] >= 0
        /\ Abs(SumSeq(demands(c))) <= capacities(v)

\* C18: for a vehicle whose n assigned clients all have uniformly signed
\* demand vectors within its capacity, the build loop always makes progress:
\* a forced warehouse visit is never followed by another one but by a client
\* visit, the loop is never in a state it cannot leave, and the route, also
\* when closed, has at most 2n + 2 points.
C18_UniformBuildTerminates ==
    (pc \in {"loop", "routes"} /\ vid \in DOMAIN assignment /\ UniformFit(vid))
        => /\ stalled <= 1
           /\ (pc = "loop" /\ stalled = 1) => feasible # <<>>
           /\ ~(pc = "loop" /\ NonProgress)
           /\ Len(route) <= 2 * Len(assignment[vid]) + 2
           /\ pc = "loop" => Len(route) <= 2 * (Len(assignment[vid]) - Cardinality(unserved)) + 1 + stalled

\* a closed route of 2n + 2 points for n = 2 clients, each served after a
\* forced warehouse visit
C18_Witness ==
    /\ pc = "routes"
    /\ vid \in DOMAIN solution
    /\ UniformFit(vid)
    /\ Len(assignment[vid]) = 2
    /\ Len(solution[vid]) = 6

\* the places of client c in the lists of asg
PlacesOf(asg, c) == {p \in (DOMAIN asg) \X (1..Len(clients)) :
                        p[2] \in DOMAIN asg[p[1]] /\ asg[p[1]][p[2]] = c}

\* C19: the assignment assign_clients returns has one list, possibly empty,
\* for every vehicle, and every client id is in exactly one of the lists,
\* once; assign_clients leaves the centers as they are.
C19_Step ==
    (pc = "assign" /\ pc' = "update")
        => /\ DOMAIN assignment' = Range(vehicle_ids)
           /\ \A v \in DOMAIN assignment' : Range(assignment'[v]) \subseteq ClientIds
           /\ \A c \in ClientIds : Cardinality(PlacesOf(assignment', c)) = 1
           /\ centers' = centers

C19_AssignmentPartition == [][C19_Step]_vars

\* two vehicles and two clients, one of them as near to one center as to
\* the other, and a vehicle left without clients
C19_Witness ==
    /\ pc = "update"
    /\ Len(vehicles) = 2
    /\ Len(clients) = 2
    /\ \E v \in DOMAIN assignment : assignment[v] = <<>>
    /\ \E c \in ClientIds : \A u, v \in DOMAIN centers :
            ~Closer(locs(c), centers[u], centers[v])
====
